---- MODULE Spec2Model ----
(***************************************************************************)
(* LocalLink: a model of the chunked file transfer of the browser client   *)
(* (frontend/src/App.jsx: sendFiles and the receiver's data handler).      *)
(*                                                                         *)
(* Sizes are counted in tokens: a frame is a sequence of tokens, a file's  *)
(* content is a sequence of tokens, and CHUNK_SIZE, BUFFER_THRESHOLD and   *)
(* CONTROL_LIMIT are the program's 64 KiB, 1 MiB and 1000 bytes scaled     *)
(* down to a few tokens, keeping their order.                              *)
(***************************************************************************)
EXTENDS Integers, Sequences, FiniteSets, TLC

----------------------------------------------------------------------------
(* Bounds *)

\* App.jsx:126  const CHUNK_SIZE = 64 * 1024, in tokens
CHUNK_SIZE == 4
\* App.jsx:127  const BUFFER_THRESHOLD = 1024 * 1024, in tokens
BUFFER_THRESHOLD == 8
\* App.jsx:636  data.byteLength < 1000, in tokens
CONTROL_LIMIT == 8
\* the longest file list handed to sendFiles or selected for a request
MaxFiles == 2
\* how many times a step inside the try block may throw in one run
MaxThrows == 1
\* how many transfer requests the users emit in one run
MaxRequests == 2

\* Date.now() counts ticks; TicksPerSecond of them make the second that
\* updateStats divides by (1000 in the code)
TicksPerSecond == 2

\* the bytes in the unit of the displayed rate (1024 * 1024 in the code)
MEGA == 2

\* the clock stops at MaxTime ticks
MaxTime == 6

\* the largest total size of a batch
MaxBytes == 6

----------------------------------------------------------------------------
(* Text: JSON.stringify and JSON.parse on token sequences *)

Numerals == <<"0", "1", "2", "3", "4", "5", "6", "7", "8", "9", "10", "11", "12">>

Numeral(n) == Numerals[n + 1]

IsNumeral(t) == \E k \in 1..Len(Numerals) : Numerals[k] = t

NumeralValue(t) == (CHOOSE k \in 1..Len(Numerals) : Numerals[k] = t) - 1

\* JSON.stringify({type: 'file-header', name, size, path})
HeaderText(name, size, path) ==
    <<"{", "file-header">> \o name \o <<Numeral(size)>> \o path \o <<"}">>

\* JSON.stringify({type: 'file-end'})
EndText == <<"{", "file-end", "}">>

NoMsg == [type |-> "none"]

\* JSON.parse(text) for a text that starts with "{": the object, or
\* [type |-> "throw"] when the text is no JSON object.
JsonParse(text) ==
    IF Len(text) < 2 \/ text[Len(text)] # "}" THEN [type |-> "throw"]
    ELSE IF text = EndText THEN [type |-> "file-end"]
    ELSE IF text = <<"{", "}">> THEN [type |-> "other"]
    ELSE IF text[2] = "file-header"
            /\ \E k \in 3..(Len(text) - 1) : IsNumeral(text[k])
         THEN LET k == CHOOSE j \in 3..(Len(text) - 1) : IsNumeral(text[j])
              IN  [type |-> "file-header",
                   name |-> SubSeq(text, 3, k - 1),
                   size |-> NumeralValue(text[k]),
                   path |-> SubSeq(text, k + 1, Len(text) - 1)]
    ELSE [type |-> "throw"]

\* The receiver's classification of a frame: the parsed control message, or
\* NoMsg for a frame taken as binary data.
Classify(data) ==
    IF Len(data) < CONTROL_LIMIT /\ Len(data) > 0 /\ data[1] = "{"
    THEN LET msg == JsonParse(data)
         IN  IF msg.type = "throw" THEN NoMsg ELSE msg
    ELSE NoMsg

----------------------------------------------------------------------------
(* The files handed to sendFiles *)

Fill(n) == [k \in 1..n |-> "x"]

\* file.webkitRelativePath || file.name
PathOf(f) == IF f.relPath # <<>> THEN f.relPath ELSE f.name

\* a file name as long as a control frame may be
LongName == [k \in 1..CONTROL_LIMIT |-> "n"]

FileSet ==
    { [name |-> <<"a">>, relPath |-> <<>>, data |-> <<>>],
      [name |-> LongName, relPath |-> <<>>, data |-> <<>>],
      [name |-> <<"a">>, relPath |-> <<>>, data |-> Fill(CHUNK_SIZE + 1)],
      [name |-> <<"b">>, relPath |-> <<>>, data |-> EndText] }

\* the lists of up to MaxFiles different files
FileLists ==
    { l \in UNION { [1..n -> FileSet] : n \in 0..MaxFiles } :
          \A i, j \in 1..Len(l) : l[i] = l[j] => i = j }

SizeOf(f) == Len(f.data)

----------------------------------------------------------------------------
VARIABLES
    files,          \* the list handed to sendFiles
    streamOK,       \* the receiver writes through StreamSaver (else Blob)
    spc,            \* sendFiles: where the async function is suspended
    fi,             \* sendFiles: i + 1
    offset,         \* sendFiles: offset
    throws,         \* how many steps have thrown inside the try block
    channel,        \* the data channel: frames sent and not yet delivered
    txLog,          \* history: the frames handed to the transport
    attempts,       \* history: the files whose iteration has begun
    failed,         \* history: the files whose iteration ended in the catch
    currentFileMeta,
    writable,       \* index of the open writer in sinks, 0 for null
    chunks,
    receivedBytes,
    pending,        \* suspended continuations of the data handler, in order
    sinks,          \* files created on the receiving side
    rxThrew         \* the data handler has thrown

xferVars == <<files, streamOK, spc, fi, offset, throws, channel, txLog,
              attempts, failed, currentFileMeta, writable, chunks,
              receivedBytes, pending, sinks, rxThrew>>

senderVars == <<spc, fi, offset, throws, channel, txLog, attempts, failed>>

receiverVars == <<currentFileMeta, writable, chunks, receivedBytes, pending,
                  sinks, rxThrew>>

VARIABLES
    conns,          \* server: the connected sockets (all in the main lobby)
    users,          \* server: the registry, socket id -> display name
    toServer,       \* per socket: messages emitted by the client, in order
    toClient,       \* per socket: messages emitted by the server, in order
    sock,           \* client: "off", "on" or "gone" (page closed)
    myId,           \* client: state myId
    usersRef,       \* client: usersRef.current (and state users)
    incomingRequest,
    selectedFiles,  \* client: state selectedFiles, as a file count
    selectedFilesRef,
    batchStatus,
    connected,
    peers,          \* client: the SimplePeer objects created so far
    peerRef,        \* client: peerRef.current, index in peers, 0 for null
    timer,          \* client: the armed connection timeout, or NoTimer
    toasts,         \* client: the notifications of the last handler
    requests,       \* how many transfer requests have been emitted
    asked           \* history: the peer of each page's outstanding request

netVars == <<conns, users, toServer, toClient, sock, myId, usersRef,
             incomingRequest, selectedFiles, selectedFilesRef, batchStatus,
             connected, peers, peerRef, timer, toasts, requests, asked>>

VARIABLES
    now,            \* Date.now(), in ticks
    lastTimeRef,    \* lastTimeRef.current, in ticks
    lastBytesRef,   \* lastBytesRef.current
    stats,          \* state stats
    sentBytesTotal, \* sendFiles: sentBytesTotal
    speedBytesPerSec \* history: the rate of the last qualifying sample

statVars == <<now, lastTimeRef, lastBytesRef, stats, sentBytesTotal,
              speedBytesPerSec>>

vars == <<xferVars, netVars, statVars>>

RECURSIVE SumLen(_)
SumLen(q) == IF q = <<>> THEN 0 ELSE Len(Head(q).bytes) + SumLen(Tail(q))

\* peerConnection._channel.bufferedAmount
BufferedAmount == SumLen(channel)

Min(a, b) == IF a < b THEN a ELSE b

\* addToast on the client p: the toasts of the handler that ran last
Toast(p, shown) == toasts' = [toasts EXCEPT ![p] = shown]

\* newPeer.destroy() on the peer k of p
Destroyed(ps, k) == [ps EXCEPT ![k].state = "destroyed"]

----------------------------------------------------------------------------
(* Progress: updateStats and formatTime.  A number of the code that need
   not be whole (a time difference, a rate, a number of seconds) is a pair
   <<numerator, denominator>> with a positive denominator. *)

\* the text '--:--'
UnknownTime == << >>

\* the names shown as the current file
FileNames == <<"a", "b", "c">>

\* useState of stats; speed '0 MB/s' is the one-digit text <<0>>
WaitingStats ==
    [totalFiles |-> 0, processedFiles |-> 0, totalBytes |-> 0,
     processedBytes |-> 0, speed |-> <<0>>, eta |-> UnknownTime,
     currentFile |-> "Waiting..."]

\* Math.floor of a quotient whose denominator is positive
Floor(x) ==
    IF x[1] >= 0 THEN x[1] \div x[2] ELSE -((-x[1] + x[2] - 1) \div x[2])

\* formatTime(seconds): minutes and seconds, <<m, s>> for `${m}m ${s}s`
formatTime(seconds) ==
    IF seconds[1] < 0 THEN UnknownTime
    ELSE <<Floor(seconds) \div 60, Floor(seconds) % 60>>

\* (x / 1024 / 1024).toFixed(1): units and tenths, <<u, t>> for `${u}.${t}`
ToFixed1(x) ==
    LET tenths == (20 * x[1] + x[2] * MEGA) \div (2 * x[2] * MEGA)
    IN  <<tenths \div 10, tenths % 10>>

\* timeDiff, in ticks
Elapsed == now - lastTimeRef

\* timeDiff > 0 ? bytesDiff / timeDiff : 0
Rate(bytesDiff) ==
    IF Elapsed > 0 THEN <<bytesDiff * TicksPerSecond, Elapsed>> ELSE <<0, 1>>

\* speedBytesPerSec > 0 ? remainingBytes / speedBytesPerSec : 0
EtaSeconds(remainingBytes, rate) ==
    IF rate[1] > 0 THEN <<remainingBytes * rate[2], rate[1]>> ELSE <<0, 1>>

\* timeDiff >= 1 || processedBytes === totalBytes
Qualifies(totalBytes, processedBytes) ==
    Elapsed >= TicksPerSecond \/ processedBytes = totalBytes

\* a qualifying sample that leaves the last sample as it was
Sample_keepLast(totalBytes, processedBytes, currentFile, totalFiles, processedFiles) ==
    LET rate == Rate(processedBytes - lastBytesRef)
    IN  /\ stats' = [totalFiles |-> totalFiles,
                     processedFiles |-> processedFiles,
                     totalBytes |-> totalBytes,
                     processedBytes |-> processedBytes,
                     speed |-> ToFixed1(rate),
                     eta |-> formatTime(
                                EtaSeconds(totalBytes - processedBytes, rate)),
                     currentFile |-> currentFile]
        /\ speedBytesPerSec' = rate
        /\ UNCHANGED <<lastTimeRef, lastBytesRef>>

\* updateStats, the branch of a qualifying sample
Sample(totalBytes, processedBytes, currentFile, totalFiles, processedFiles) ==
    LET rate == Rate(processedBytes - lastBytesRef)
    IN  /\ stats' = [totalFiles |-> totalFiles,
                     processedFiles |-> processedFiles,
                     totalBytes |-> totalBytes,
                     processedBytes |-> processedBytes,
                     speed |-> ToFixed1(rate),
                     eta |-> formatTime(
                                EtaSeconds(totalBytes - processedBytes, rate)),
                     currentFile |-> currentFile]
        /\ speedBytesPerSec' = rate
        /\ lastTimeRef' = now
        /\ lastBytesRef' = processedBytes

\* a sample between qualifying ones that also shows the rate anew
Cosmetic_jitter(processedBytes, currentFile, processedFiles) ==
    /\ stats' = [stats EXCEPT !.processedFiles = processedFiles,
                              !.processedBytes = processedBytes,
                              !.currentFile = currentFile,
                              !.speed = ToFixed1(
                                  Rate(processedBytes - lastBytesRef))]
    /\ UNCHANGED <<lastTimeRef, lastBytesRef, speedBytesPerSec>>

\* updateStats, the branch of a sample between qualifying ones
Cosmetic(processedBytes, currentFile, processedFiles) ==
    /\ stats' = [stats EXCEPT !.processedFiles = processedFiles,
                              !.processedBytes = processedBytes,
                              !.currentFile = currentFile]
    /\ UNCHANGED <<lastTimeRef, lastBytesRef, speedBytesPerSec>>

\* a zero time difference that is not dropped
ZeroElapsed_sampled == FALSE

\* timeDiff === 0
ZeroElapsed == Elapsed = 0

\* updateStats(totalBytes, processedBytes, currentFile, totalFiles,
\*             processedFiles)
updateStats(totalBytes, processedBytes, currentFile, totalFiles, processedFiles) ==
    IF ZeroElapsed
    THEN UNCHANGED <<stats, lastTimeRef, lastBytesRef, speedBytesPerSec>>
    ELSE IF Qualifies(totalBytes, processedBytes)
    THEN Sample(totalBytes, processedBytes, currentFile, totalFiles,
                processedFiles)
    ELSE Cosmetic(processedBytes, currentFile, processedFiles)

\* sendFiles: a chunk of n bytes of the file i has been sent
\*   sentBytesTotal += buffer.byteLength; updateStats(...)
ChunkSent(n, i) ==
    /\ sentBytesTotal + n <= stats.totalBytes
    /\ sentBytesTotal' = sentBytesTotal + n
    /\ updateStats(stats.totalBytes, sentBytesTotal + n, FileNames[i + 1],
                   stats.totalFiles, i)
    /\ now' = now

\* time passes
Tick ==
    /\ now < MaxTime
    /\ now' = now + 1
    /\ UNCHANGED <<lastTimeRef, lastBytesRef, stats, sentBytesTotal,
                   speedBytesPerSec>>

\* the files a chunk can belong to: the one shown or the next
FileIndexes == { i \in {stats.processedFiles, stats.processedFiles + 1} :
                    i < stats.totalFiles }

NextStats ==
    \/ \E n \in 1..CHUNK_SIZE : \E i \in FileIndexes :
           ChunkSent(n, i) /\ UNCHANGED <<xferVars, netVars>>
    \/ Tick /\ UNCHANGED <<xferVars, netVars>>

----------------------------------------------------------------------------
(* sendFiles: one action per stretch of code between two awaits. The page   *)
(* Sender runs sendFiles from its 'connect' handler; the page Receiver runs *)
(* the 'data' handler of setupReceiverEvents.                               *)

Sender == "a1"

Receiver == "b1"

\* the net variables the transfer leaves alone
idleNetVars == <<conns, users, toServer, toClient, sock, myId, usersRef,
                 incomingRequest, selectedFilesRef, peerRef, timer, requests, asked>>

\* the sender's transport has not been destroyed
TransportOpen == peers[Sender] # <<>> /\ peers[Sender][1].state = "open"

\* peerConnection.send(bytes): the frame joins the channel
Send(kind, bytes, waited) ==
    /\ channel' = Append(channel, [kind |-> kind, bytes |-> bytes])
    /\ txLog' = Append(txLog, [kind |-> kind, file |-> fi,
                               len |-> Len(bytes), waited |-> waited])

\* a catch block that gives up the whole list
AfterCatch_abort == "done"

\* where the loop goes on after the catch block
AfterCatch == "header"

\* catch (err) { addToast(...) }, then i++
CatchBlock ==
    /\ failed' = failed \cup {fi}
    /\ fi' = fi + 1
    /\ offset' = 0
    /\ spc' = AfterCatch
    /\ Toast(Sender, {"Failed to send"})
    /\ UNCHANGED <<channel, txLog>>

\* a step of the try block throws on an open transport
Catch ==
    /\ TransportOpen
    /\ throws < MaxThrows
    /\ throws' = throws + 1
    /\ CatchBlock

\* send() on a destroyed transport throws
SendFails ==
    /\ ~TransportOpen
    /\ throws' = throws
    /\ CatchBlock

\* a sender that never waits
OverThreshold_never(amount) == FALSE

\* the backpressure test before a chunk is sent
OverThreshold(amount) == amount > BUFFER_THRESHOLD

\* the test of the polling loop that ends the wait
BelowThreshold(amount) == amount < BUFFER_THRESHOLD

\* the chunk read at the current offset
CurrentChunk ==
    SubSeq(files[fi].data, offset + 1,
           Min(offset + CHUNK_SIZE, SizeOf(files[fi])))

\* a loop that stops before a last chunk that is not full
LoopPc_fullOnly(off) ==
    IF off + CHUNK_SIZE <= SizeOf(files[fi]) THEN "read" ELSE "eofWait"

\* while (offset < file.size): read the next chunk, or go on to the EOF wait
LoopPc(off) == IF off < SizeOf(files[fi]) THEN "read" ELSE "eofWait"

\* for-loop head and the header: send(header), then await 20 ms
StartFile ==
    /\ spc = "header"
    /\ fi <= Len(files)
    /\ attempts' = Append(attempts, fi)
    /\ \/ /\ TransportOpen
          /\ Send("header",
                  HeaderText(files[fi].name, SizeOf(files[fi]), PathOf(files[fi])),
                  FALSE)
          /\ spc' = "hdrWait"
          /\ offset' = 0
          /\ UNCHANGED <<fi, throws, failed, toasts>>
       \/ Catch
       \/ SendFails
    /\ UNCHANGED <<files, streamOK, receiverVars, selectedFiles, batchStatus,
                   connected, peers>>

\* after the 20 ms: offset = 0 and the first test of the while loop
HeaderWaitDone ==
    /\ spc = "hdrWait"
    /\ spc' = LoopPc(0)
    /\ offset' = 0
    /\ UNCHANGED <<files, streamOK, fi, throws, channel, txLog, attempts,
                   failed, receiverVars, selectedFiles, batchStatus,
                   connected, peers, toasts>>

\* send(chunk); offset += byteLength; the next test of the while loop
SendChunk(waited) ==
    \/ /\ TransportOpen
       /\ Send("chunk", CurrentChunk, waited)
       /\ offset' = offset + Len(CurrentChunk)
       /\ spc' = LoopPc(offset + Len(CurrentChunk))
       /\ UNCHANGED <<fi, throws, failed, toasts>>
    \/ Catch
    \/ SendFails

\* await chunk.arrayBuffer() resolves: the backpressure test, then the send;
\* on a destroyed transport _channel is null and the test is skipped
ReadDone ==
    /\ spc = "read"
    /\ IF TransportOpen /\ OverThreshold(BufferedAmount)
       THEN /\ spc' = "bpWait"
            /\ UNCHANGED <<fi, offset, throws, channel, txLog, failed, toasts>>
       ELSE SendChunk(FALSE)
    /\ UNCHANGED <<files, streamOK, attempts, receiverVars, selectedFiles,
                   batchStatus, connected, peers>>

\* await chunk.arrayBuffer() rejects
ReadFail ==
    /\ spc = "read"
    /\ Catch
    /\ UNCHANGED <<files, streamOK, attempts, receiverVars, selectedFiles,
                   batchStatus, connected, peers>>

\* the polling check finds the buffer below the threshold: resolve, send
BackpressureDone ==
    /\ spc = "bpWait"
    /\ TransportOpen
    /\ BelowThreshold(BufferedAmount)
    /\ SendChunk(TRUE)
    /\ UNCHANGED <<files, streamOK, attempts, receiverVars, selectedFiles,
                   batchStatus, connected, peers>>

\* the polling check runs after the transport was destroyed: _channel is
\* null, the timer callback throws, and the promise sendFiles awaits is
\* never settled
BackpressureFails ==
    /\ spc = "bpWait"
    /\ ~TransportOpen
    /\ spc' = "hung"
    /\ UNCHANGED <<files, streamOK, fi, offset, throws, channel, txLog,
                   attempts, failed, receiverVars, selectedFiles, batchStatus,
                   connected, peers, toasts>>

\* after the 10 ms: send(file-end), then i++
SendEnd ==
    /\ spc = "eofWait"
    /\ \/ /\ TransportOpen
          /\ Send("end", EndText, FALSE)
          /\ fi' = fi + 1
          /\ offset' = 0
          /\ spc' = "header"
          /\ UNCHANGED <<throws, failed, toasts>>
       \/ Catch
       \/ SendFails
    /\ UNCHANGED <<files, streamOK, attempts, receiverVars, selectedFiles,
                   batchStatus, connected, peers>>

\* the loop is over: setTransferring(false), 'All files sent!',
\* setSelectedFiles([])
Complete ==
    /\ spc = "header"
    /\ fi > Len(files)
    /\ spc' = "done"
    /\ Toast(Sender, {"All files sent!"})
    /\ selectedFiles' = [selectedFiles EXCEPT ![Sender] = 0]
    /\ UNCHANGED <<files, streamOK, fi, offset, throws, channel, txLog,
                   attempts, failed, receiverVars, batchStatus, connected,
                   peers>>

\* the connection is lost: both transports are destroyed, the frames in
\* flight are gone, and the 'close' handler of each page runs
CloseTransport ==
    /\ TransportOpen
    /\ peers' = [peers EXCEPT ![Sender] = Destroyed(@, 1),
                              ![Receiver] = Destroyed(@, 1)]
    /\ channel' = <<>>
    /\ connected' = [connected EXCEPT ![Sender] = FALSE, ![Receiver] = FALSE]
    /\ batchStatus' = [batchStatus EXCEPT ![Sender] = "idle",
                                          ![Receiver] = "idle"]
    /\ UNCHANGED <<files, streamOK, spc, fi, offset, throws, txLog, attempts,
                   failed, receiverVars, selectedFiles, toasts>>

----------------------------------------------------------------------------
(* setupReceiverEvents: the async 'data' handler *)

RECURSIVE Concat(_)
\* new Blob(chunks): the chunks one after the other
Concat(cs) == IF cs = <<>> THEN <<>> ELSE Head(cs) \o Concat(Tail(cs))

\* msg.type === 'file-header': the new file replaces the current one
OnHeader(msg) ==
    /\ currentFileMeta' = msg
    /\ receivedBytes' = 0
    /\ IF streamOK
       THEN /\ sinks' = Append(sinks, [name |-> msg.name, data |-> <<>>,
                                       closed |-> FALSE])
            /\ writable' = Len(sinks) + 1
            /\ UNCHANGED chunks
       ELSE /\ chunks' = <<>>
            /\ UNCHANGED <<sinks, writable>>
    /\ UNCHANGED <<pending, rxThrew, toasts>>

\* the handler throws (its promise rejects) and leaves the state as it is
HandlerThrows ==
    /\ rxThrew' = TRUE
    /\ UNCHANGED <<currentFileMeta, writable, chunks, receivedBytes, pending,
                   sinks, toasts>>

\* msg.type === 'file-end', up to the await or to the return
OnEnd ==
    IF currentFileMeta = NoMsg
    THEN HandlerThrows                     \* currentFileMeta.name of null
    ELSE IF writable # 0
    THEN IF sinks[writable].closed
         THEN HandlerThrows                \* close() of a closing writer rejects
         ELSE /\ sinks' = [sinks EXCEPT ![writable].closed = TRUE]
              /\ pending' = Append(pending, [kind |-> "close", len |-> 0])
              /\ UNCHANGED <<currentFileMeta, writable, chunks, receivedBytes,
                             rxThrew, toasts>>
    ELSE /\ sinks' = Append(sinks, [name |-> currentFileMeta.name,
                                    data |-> Concat(chunks), closed |-> TRUE])
         /\ chunks' = <<>>
         /\ currentFileMeta' = NoMsg
         /\ Toast(Receiver, {"Received"})
         /\ UNCHANGED <<writable, receivedBytes, pending, rxThrew>>

\* the binary branch, up to the await or to the end of the handler
OnBinary(data) ==
    IF currentFileMeta = NoMsg
    THEN UNCHANGED <<receiverVars, toasts>>
    ELSE IF writable # 0
    THEN IF sinks[writable].closed
         THEN HandlerThrows                \* write() to a closing writer rejects
         ELSE /\ sinks' = [sinks EXCEPT ![writable].data = @ \o data]
              /\ pending' = Append(pending, [kind |-> "write", len |-> Len(data)])
              /\ UNCHANGED <<currentFileMeta, writable, chunks, receivedBytes,
                             rxThrew, toasts>>
    ELSE /\ chunks' = Append(chunks, data)
         /\ receivedBytes' = receivedBytes + Len(data)
         /\ UNCHANGED <<currentFileMeta, writable, pending, sinks, rxThrew,
                        toasts>>

\* a 'data' event: the channel delivers its first frame and the handler runs
\* on it
Deliver ==
    /\ channel # <<>>
    /\ channel' = Tail(channel)
    /\ LET data == Head(channel).bytes
           msg == Classify(data)
       IN  IF msg.type = "file-header" THEN OnHeader(msg)
           ELSE IF msg.type = "file-end" THEN OnEnd
           ELSE OnBinary(data)
    /\ UNCHANGED <<files, streamOK, spc, fi, offset, throws, txLog, attempts,
                   failed, selectedFiles, batchStatus, connected, peers>>

\* an awaited writer promise resolves and the handler that waits for it goes on
Resume ==
    /\ pending # <<>>
    /\ pending' = Tail(pending)
    /\ IF Head(pending).kind = "close"
       THEN /\ writable' = 0
            /\ IF currentFileMeta = NoMsg
               THEN /\ rxThrew' = TRUE    \* currentFileMeta.name of null
                    /\ UNCHANGED toasts
               ELSE /\ rxThrew' = rxThrew
                    /\ Toast(Receiver, {"Received"})
            /\ currentFileMeta' = NoMsg
            /\ UNCHANGED receivedBytes
       ELSE /\ receivedBytes' = receivedBytes + Head(pending).len
            /\ UNCHANGED <<currentFileMeta, writable, rxThrew, toasts>>
    /\ UNCHANGED <<files, streamOK, senderVars, chunks, sinks, selectedFiles,
                   batchStatus, connected, peers>>

NextTransfer ==
    \/ StartFile /\ UNCHANGED <<idleNetVars, statVars>>
    \/ HeaderWaitDone /\ UNCHANGED <<idleNetVars, statVars>>
    \/ ReadDone /\ UNCHANGED <<idleNetVars, statVars>>
    \/ ReadFail /\ UNCHANGED <<idleNetVars, statVars>>
    \/ BackpressureDone /\ UNCHANGED <<idleNetVars, statVars>>
    \/ BackpressureFails /\ UNCHANGED <<idleNetVars, statVars>>
    \/ SendEnd /\ UNCHANGED <<idleNetVars, statVars>>
    \/ Complete /\ UNCHANGED <<idleNetVars, statVars>>
    \/ CloseTransport /\ UNCHANGED <<idleNetVars, statVars>>
    \/ Deliver /\ UNCHANGED <<idleNetVars, statVars>>
    \/ Resume /\ UNCHANGED <<idleNetVars, statVars>>

\* the files the receiver has materialized, in order
Materialized ==
    LET done == SelectSeq(sinks, LAMBDA s : s.closed)
    IN  [k \in 1..Len(done) |-> [name |-> done[k].name, data |-> done[k].data]]

Sent == [k \in 1..Len(files) |-> [name |-> files[k].name, data |-> files[k].data]]

\* sendFiles has returned and every frame has been delivered and handled
Quiescent == spc = "done" /\ channel = <<>> /\ pending = <<>>

----------------------------------------------------------------------------
(* The rendezvous server (backend/server.js) and the negotiation of the     *)
(* client (App.jsx). One action per event handler.                          *)

Ids == {"a1", "b1", "c1"}

\* the users who pick files in the file dialog, the users who drop files on
\* a peer, and how many files they take
Pickers == {"a1"}

Droppers == {"c1"}

\* the pages that may close during a negotiation
Closers == {"b1"}

FileCounts == {2}

MAIN_LOBBY == "main-lobby"

\* localStorage 'locallink_name' of each device
StoredName(p) ==
    CASE p = "a1" -> "Red Fox 1" [] p = "b1" -> "Blue Owl 2" [] OTHER -> "Calm Cat 3"

NoRequest == [from |-> "none"]

NoTimer == [peer |-> 0]

NullSocket == "null"

LiveSocket == "socket"

\* a mount effect whose handlers see the socket that was created
EffectSocket_live == LiveSocket

\* The state `socket` as the handlers registered by the mount effect see it:
\* they close over the first render, whose useState(null) is null.
EffectSocket == NullSocket

\* The state `connected` as the same handlers see it: useState(false).
EffectConnected == FALSE

srvVars == <<conns, users>>

clientVars == <<myId, usersRef, incomingRequest, selectedFiles,
                selectedFilesRef, batchStatus, connected, peers, peerRef,
                timer, toasts>>

\* socket.emit(msg) on the client p
ClientEmit(p, msg) == toServer' = [toServer EXCEPT ![p] = Append(@, msg)]

----------------------------------------------------------------------------
(* server.js *)

\* io.to(room): every socket is in the main lobby and in the room of its id
Room(to) == IF to = MAIN_LOBBY THEN conns ELSE conns \cap {to}

\* io.to(room).emit(msg), on the queues q
Emit(q, room, msg) ==
    [r \in Ids |-> IF r \in room THEN Append(q[r], msg) ELSE q[r]]

\* Array.from(users.values())
UserList(u) == { [id |-> i, name |-> u[i]] : i \in DOMAIN u }

\* broadcastUsers(): the list goes to every socket of the lobby
BroadcastUsers(q, u, lobby) ==
    Emit(q, lobby, [type |-> "users", list |-> UserList(u)])

\* the server takes the next message of socket p
Incoming(p, type) ==
    /\ p \in conns
    /\ toServer[p] # <<>>
    /\ Head(toServer[p]).type = type
    /\ toServer' = [toServer EXCEPT ![p] = Tail(@)]

\* the page of p opens: the socket connects, the server puts it in the
\* lobby, and the client's 'connect' handler emits join
Connect(p) ==
    /\ sock[p] = "off"
    /\ sock' = [sock EXCEPT ![p] = "on"]
    /\ conns' = conns \cup {p}
    /\ ClientEmit(p, [type |-> "join", name |-> StoredName(p)])
    /\ Toast(p, {"Connected to server"})
    /\ UNCHANGED <<users, toClient, myId, usersRef, incomingRequest,
                   selectedFiles, selectedFilesRef, batchStatus, connected,
                   peers, peerRef, timer, requests, asked>>

\* socket.on('join')
SrvJoin(p) ==
    /\ Incoming(p, "join")
    /\ LET data == Head(toServer[p])
           userName == IF data.name # "" THEN data.name ELSE "User"
           reg == [i \in DOMAIN users \cup {p} |->
                      IF i = p THEN userName ELSE users[i]]
       IN  /\ users' = reg
           /\ toClient' = BroadcastUsers(
                              Emit(toClient, {p}, [type |-> "me", id |-> p]),
                              reg, conns)
    /\ UNCHANGED <<conns, sock, clientVars, requests, asked>>

\* socket.on('signal')
SrvSignal(p) ==
    /\ Incoming(p, "signal")
    /\ LET data == Head(toServer[p])
       IN  toClient' = Emit(toClient, Room(data.to),
                            [type |-> "signal", signal |-> data.signal,
                             from |-> data.from])
    /\ UNCHANGED <<srvVars, sock, clientVars, requests, asked>>

\* socket.on('batch-request')
SrvBatchRequest(p) ==
    /\ Incoming(p, "batch-request")
    /\ LET data == Head(toServer[p])
       IN  toClient' = Emit(toClient, Room(data.to),
                            [type |-> "batch-request",
                             from |-> data.from,
                             fromName |-> IF data.from \in DOMAIN users
                                          THEN users[data.from] ELSE "Unknown",
                             fileCount |-> data.fileCount])
    /\ UNCHANGED <<srvVars, sock, clientVars, requests, asked>>

\* socket.on('batch-answer')
SrvBatchAnswer(p) ==
    /\ Incoming(p, "batch-answer")
    /\ LET data == Head(toServer[p])
       IN  toClient' = Emit(toClient, Room(data.to),
                            [type |-> "batch-answer", from |-> p,
                             accepted |-> data.accepted])
    /\ UNCHANGED <<srvVars, sock, clientVars, requests, asked>>

\* a 'disconnect' handler that leaves the registry as it is
SrvDisconnect_keep(p) ==
    /\ Incoming(p, "disconnect")
    /\ conns' = conns \ {p}
    /\ users' = users
    /\ toClient' = [toClient EXCEPT ![p] = <<>>]
    /\ UNCHANGED <<sock, clientVars, requests, asked>>

\* socket.on('disconnect')
SrvDisconnect(p) ==
    /\ Incoming(p, "disconnect")
    /\ conns' = conns \ {p}
    /\ IF p \in DOMAIN users
       THEN LET reg == [i \in DOMAIN users \ {p} |-> users[i]]
            IN  /\ users' = reg
                /\ toClient' = [BroadcastUsers(toClient, reg, conns \ {p})
                                   EXCEPT ![p] = <<>>]
       ELSE /\ users' = users
            /\ toClient' = [toClient EXCEPT ![p] = <<>>]
    /\ UNCHANGED <<sock, clientVars, requests, asked>>

----------------------------------------------------------------------------
(* Any client of the server: a connected socket may emit any message of the *)
(* protocol, to any address.                                                *)

\* the addresses a socket may name: the ids, the lobby's room, and no room
Targets == Ids \cup {MAIN_LOBBY, "nobody"}

\* the sockets that emit messages of their own making
RawSenders == {"c1"}

\* the ids the socket p may put in the field `from`: its own and another's
Claimed(p) == {p, "a1"}

\* the messages the socket p may make up
RawMessages(p) ==
    { [type |-> "signal", to |-> t, from |-> f, signal |-> "offer"] :
          t \in Targets, f \in Claimed(p) }
    \cup { [type |-> "batch-request", to |-> t, from |-> f, fileCount |-> 1] :
              t \in Targets, f \in Claimed(p) }
    \cup { [type |-> "batch-answer", to |-> t, accepted |-> TRUE] :
              t \in Targets }

\* the socket p emits the message msg
\* a 'join' emitted again on a connection that has joined before
Rejoin == [type |-> "join", name |-> "Renamed"]

RawEmit(p, msg) ==
    /\ sock[p] = "on"
    /\ requests < MaxRequests
    /\ requests' = requests + 1
    /\ ClientEmit(p, msg)
    /\ UNCHANGED <<srvVars, toClient, sock, clientVars, asked>>

----------------------------------------------------------------------------
(* App.jsx: socket handlers, user actions and the connection timeout *)

\* the client takes the next message of its socket
Received(p, type) ==
    /\ sock[p] = "on"
    /\ toClient[p] # <<>>
    /\ Head(toClient[p]).type = type
    /\ toClient' = [toClient EXCEPT ![p] = Tail(@)]

\* newSocket.on('me')
OnMe(p) ==
    /\ Received(p, "me")
    /\ myId' = [myId EXCEPT ![p] = Head(toClient[p]).id]
    /\ UNCHANGED <<srvVars, toServer, sock, usersRef, incomingRequest,
                   selectedFiles, selectedFilesRef, batchStatus, connected,
                   peers, peerRef, timer, toasts, requests, asked>>

\* a 'users' handler that keeps the whole list
Others_all(userList, id) == userList

\* userList.filter(u => u.id !== newSocket.id)
Others(userList, id) == { u \in userList : u.id # id }

\* newSocket.on('users')
OnUsers(p) ==
    /\ Received(p, "users")
    /\ usersRef' = [usersRef EXCEPT ![p] = Others(Head(toClient[p]).list, p)]
    /\ UNCHANGED <<srvVars, toServer, sock, myId, incomingRequest,
                   selectedFiles, selectedFilesRef, batchStatus, connected,
                   peers, peerRef, timer, toasts, requests, asked>>

\* newSocket.on('batch-request'): the request shown replaces any other
OnBatchRequest(p) ==
    /\ Received(p, "batch-request")
    /\ LET data == Head(toClient[p])
       IN  /\ incomingRequest' = [incomingRequest EXCEPT ![p] =
                  [from |-> data.from, fromName |-> data.fromName,
                   fileCount |-> data.fileCount]]
           /\ Toast(p, {"Transfer request"})
    /\ UNCHANGED <<srvVars, toServer, sock, myId, usersRef, selectedFiles,
                   selectedFilesRef, batchStatus, connected, peers, peerRef,
                   timer, requests, asked>>

\* new SimplePeer(...), the 10 s timeout, peerRef.current = newPeer
NewPeer(p, initiator, remote, connectedSeen) ==
    /\ peers' = [peers EXCEPT ![p] =
                    Append(@, [initiator |-> initiator, remote |-> remote,
                               state |-> "new"])]
    /\ peerRef' = [peerRef EXCEPT ![p] = Len(peers[p]) + 1]
    /\ timer' = [timer EXCEPT ![p] =
                    [peer |-> Len(peers[p]) + 1, connected |-> connectedSeen]]

\* an accept that sets the status and creates no transport
CreateReceiverPeer_none(p, fromId, connectedSeen) ==
    /\ batchStatus' = [batchStatus EXCEPT ![p] = "connecting"]
    /\ UNCHANGED <<peers, peerRef, timer>>

\* createReceiverPeer(fromId, null, socket)
CreateReceiverPeer(p, fromId, connectedSeen) ==
    /\ batchStatus' = [batchStatus EXCEPT ![p] = "connecting"]
    /\ NewPeer(p, FALSE, fromId, connectedSeen)

\* createSenderPeer(targetUser, files), called with `shown` already toasted
\* and batchStatus already set to 'connecting' by the caller
CreateSenderPeer(p, targetUser, socketSeen, connectedSeen, shown) ==
    /\ batchStatus' = [batchStatus EXCEPT ![p] = "connecting"]
    /\ IF socketSeen = NullSocket
       THEN /\ Toast(p, shown \cup {"Socket not connected"})
            /\ UNCHANGED <<peers, peerRef, timer>>
       ELSE /\ Toast(p, shown)
            /\ NewPeer(p, TRUE, targetUser.id, connectedSeen)

\* newSocket.on('batch-answer')
OnBatchAnswer(p) ==
    /\ Received(p, "batch-answer")
    /\ LET data == Head(toClient[p])
       IN  IF data.accepted
           THEN /\ IF selectedFilesRef[p] > 0
                   THEN IF \E u \in usersRef[p] : u.id = data.from
                        THEN CreateSenderPeer(
                                 p, CHOOSE u \in usersRef[p] : u.id = data.from,
                                 EffectSocket, EffectConnected,
                                 {"Transfer accepted! Connecting..."})
                        ELSE /\ Toast(p, {"Transfer accepted! Connecting...",
                                          "Target user not found"})
                             /\ batchStatus' = [batchStatus EXCEPT ![p] = "idle"]
                             /\ UNCHANGED <<peers, peerRef, timer>>
                   ELSE /\ Toast(p, {"Transfer accepted! Connecting...",
                                     "No files selected"})
                        /\ batchStatus' = [batchStatus EXCEPT ![p] = "idle"]
                        /\ UNCHANGED <<peers, peerRef, timer>>
                /\ UNCHANGED selectedFiles
           ELSE /\ Toast(p, {"Transfer declined"})
                /\ selectedFiles' = [selectedFiles EXCEPT ![p] = 0]
                /\ batchStatus' = [batchStatus EXCEPT ![p] = "idle"]
                /\ UNCHANGED <<peers, peerRef, timer>>
    /\ asked' = [asked EXCEPT ![p] =
                    IF Head(toClient[p]).from = @ THEN "none" ELSE @]
    /\ UNCHANGED <<srvVars, toServer, sock, myId, usersRef, incomingRequest,
                   selectedFilesRef, connected, requests>>

\* newSocket.on('signal'): the signal goes to the current peer, whose
\* signal() throws when it is destroyed; with no current peer the handler
\* creates a receiver peer for the sender named in the message. What the
\* WebRTC library does with the signal is not part of the model.
OnSignal(p) ==
    /\ Received(p, "signal")
    /\ IF peerRef[p] # 0
       THEN /\ IF peers[p][peerRef[p]].state = "destroyed"
               THEN Toast(p, {"Signal error"})
               ELSE Toast(p, {"Received signal"})
            /\ UNCHANGED <<batchStatus, peers, peerRef, timer>>
       ELSE /\ CreateReceiverPeer(p, Head(toClient[p]).from, EffectConnected)
            /\ UNCHANGED toasts
    /\ UNCHANGED <<srvVars, toServer, sock, myId, usersRef, incomingRequest,
                   selectedFiles, selectedFilesRef, connected, requests, asked>>

\* handleBatchAccept: the receiver peer first, then the answer
HandleBatchAccept(p) ==
    /\ sock[p] = "on"
    /\ incomingRequest[p] # NoRequest
    /\ CreateReceiverPeer(p, incomingRequest[p].from, connected[p])
    /\ ClientEmit(p, [type |-> "batch-answer", to |-> incomingRequest[p].from,
                      accepted |-> TRUE])
    /\ incomingRequest' = [incomingRequest EXCEPT ![p] = NoRequest]
    /\ Toast(p, {"Accepting transfer..."})
    /\ UNCHANGED <<srvVars, toClient, sock, myId, usersRef, selectedFiles,
                   selectedFilesRef, connected, requests, asked>>

\* a decline that answers and keeps the request on the screen
HandleBatchDecline_keep(p) ==
    /\ sock[p] = "on"
    /\ incomingRequest[p] # NoRequest
    /\ ClientEmit(p, [type |-> "batch-answer", to |-> incomingRequest[p].from,
                      accepted |-> FALSE])
    /\ Toast(p, {"Transfer declined (info)"})
    /\ UNCHANGED <<srvVars, toClient, sock, myId, usersRef, incomingRequest,
                   selectedFiles, selectedFilesRef, batchStatus, connected,
                   peers, peerRef, timer, requests, asked>>

\* handleBatchDecline; its toast has the text of the initiator's, as an info
HandleBatchDecline(p) ==
    /\ sock[p] = "on"
    /\ incomingRequest[p] # NoRequest
    /\ ClientEmit(p, [type |-> "batch-answer", to |-> incomingRequest[p].from,
                      accepted |-> FALSE])
    /\ incomingRequest' = [incomingRequest EXCEPT ![p] = NoRequest]
    /\ Toast(p, {"Transfer declined (info)"})
    /\ UNCHANGED <<srvVars, toClient, sock, myId, usersRef, selectedFiles,
                   selectedFilesRef, batchStatus, connected, peers, peerRef,
                   timer, requests, asked>>

\* the user clicks the peer u and picks n files: handleFileSelect
HandleFileSelect(p, u, n) ==
    /\ sock[p] = "on"
    /\ u \in usersRef[p]
    /\ requests < MaxRequests
    /\ requests' = requests + 1
    /\ selectedFiles' = [selectedFiles EXCEPT ![p] = n]
    /\ selectedFilesRef' = [selectedFilesRef EXCEPT ![p] = n]
    /\ ClientEmit(p, [type |-> "batch-request", to |-> u.id, from |-> myId[p],
                      fileCount |-> n])
    /\ Toast(p, {"Request sent"})
    /\ asked' = [asked EXCEPT ![p] = u.id]
    /\ UNCHANGED <<srvVars, toClient, sock, myId, usersRef, incomingRequest,
                   batchStatus, connected, peers, peerRef, timer>>

\* the user drops n files on the peer u: handleDrop sets the state
\* selectedFiles and leaves selectedFilesRef alone
HandleDrop(p, u, n) ==
    /\ sock[p] = "on"
    /\ u \in usersRef[p]
    /\ requests < MaxRequests
    /\ requests' = requests + 1
    /\ selectedFiles' = [selectedFiles EXCEPT ![p] = n]
    /\ ClientEmit(p, [type |-> "batch-request", to |-> u.id, from |-> myId[p],
                      fileCount |-> n])
    /\ Toast(p, {"Sending request"})
    /\ asked' = [asked EXCEPT ![p] = u.id]
    /\ UNCHANGED <<srvVars, toClient, sock, myId, usersRef, incomingRequest,
                   selectedFilesRef, batchStatus, connected, peers, peerRef,
                   timer>>

\* a 'connect' handler that leaves the timeout armed
PeerConnect_keepTimer(p, k) ==
    /\ sock[p] = "on"
    /\ k \in 1..Len(peers[p])
    /\ peers[p][k].state = "new"
    /\ peers' = [peers EXCEPT ![p][k].state = "open"]
    /\ connected' = [connected EXCEPT ![p] = TRUE]
    /\ batchStatus' = [batchStatus EXCEPT ![p] = "transferring"]
    /\ Toast(p, {"P2P CONNECTED!"})
    /\ UNCHANGED <<srvVars, toServer, toClient, sock, myId, usersRef,
                   incomingRequest, selectedFiles, selectedFilesRef, peerRef,
                   timer, requests, asked>>

\* newPeer.on('connect') of the peer k of p: the transport has opened. The
\* far end of a transport is any WebRTC client, so a transport that was
\* created and not destroyed may open at any time.
PeerConnect(p, k) ==
    /\ sock[p] = "on"
    /\ k \in 1..Len(peers[p])
    /\ peers[p][k].state = "new"
    /\ peers' = [peers EXCEPT ![p][k].state = "open"]
    /\ timer' = [timer EXCEPT ![p] = NoTimer]
    /\ connected' = [connected EXCEPT ![p] = TRUE]
    /\ batchStatus' = [batchStatus EXCEPT ![p] = "transferring"]
    /\ Toast(p, {"P2P CONNECTED!"})
    /\ UNCHANGED <<srvVars, toServer, toClient, sock, myId, usersRef,
                   incomingRequest, selectedFiles, selectedFilesRef, peerRef,
                   requests, asked>>

\* newPeer.on('close') of the peer k of p: the far end of an open transport
\* has gone. The handler leaves the timeout as it is.
PeerClose(p, k) ==
    /\ sock[p] = "on"
    /\ k \in 1..Len(peers[p])
    /\ peers[p][k].state = "open"
    /\ peers' = [peers EXCEPT ![p] = Destroyed(@, k)]
    /\ connected' = [connected EXCEPT ![p] = FALSE]
    /\ batchStatus' = [batchStatus EXCEPT ![p] = "idle"]
    /\ UNCHANGED <<srvVars, toServer, toClient, sock, myId, usersRef,
                   incomingRequest, selectedFiles, selectedFilesRef, peerRef,
                   timer, toasts, requests, asked>>

\* the 10 s timeout fires: unless its closure saw connected, it toasts, sets
\* the status to idle and destroys its peer, whose 'close' handler follows
ConnectionTimeout(p) ==
    /\ sock[p] = "on"
    /\ timer[p] # NoTimer
    /\ timer' = [timer EXCEPT ![p] = NoTimer]
    /\ IF timer[p].connected
       THEN UNCHANGED <<batchStatus, connected, peers, toasts>>
       ELSE /\ Toast(p, {"Connection timeout. Please try again."})
            /\ batchStatus' = [batchStatus EXCEPT ![p] = "idle"]
            /\ peers' = [peers EXCEPT ![p] = Destroyed(@, timer[p].peer)]
            /\ connected' = [connected EXCEPT ![p] = FALSE]
    /\ UNCHANGED <<srvVars, toServer, toClient, sock, myId, usersRef,
                   incomingRequest, selectedFiles, selectedFilesRef, peerRef,
                   requests, asked>>

\* the page of p closes: the effect's cleanup disconnects the socket and
\* destroys the current peer
ClosePage(p) ==
    /\ sock[p] = "on"
    /\ sock' = [sock EXCEPT ![p] = "gone"]
    /\ ClientEmit(p, [type |-> "disconnect"])
    /\ peers' = [peers EXCEPT ![p] =
                    IF peerRef[p] # 0 THEN Destroyed(@, peerRef[p]) ELSE @]
    /\ timer' = [timer EXCEPT ![p] = NoTimer]
    /\ UNCHANGED <<srvVars, toClient, myId, usersRef, incomingRequest,
                   selectedFiles, selectedFilesRef, batchStatus, connected,
                   peerRef, toasts, requests, asked>>

\* the lobby: pages open, join, and close
NextLobby ==
    \/ \E p \in Ids : Connect(p) /\ UNCHANGED <<xferVars, statVars>>
    \/ \E p \in Ids : SrvJoin(p) /\ UNCHANGED <<xferVars, statVars>>
    \/ \E p \in Ids : SrvDisconnect(p) /\ UNCHANGED <<xferVars, statVars>>
    \/ \E p \in Ids : OnMe(p) /\ UNCHANGED <<xferVars, statVars>>
    \/ \E p \in Ids : OnUsers(p) /\ UNCHANGED <<xferVars, statVars>>
    \/ \E p \in Ids : ClosePage(p) /\ UNCHANGED <<xferVars, statVars>>

\* the relay: sockets connect, join, emit what they like and disconnect
\* the registry's events: connections, joins (first and repeated) and
\* disconnects of every page
NextRegistry ==
    \/ \E p \in Ids : Connect(p) /\ UNCHANGED <<xferVars, statVars>>
    \/ \E p \in Ids : SrvJoin(p) /\ UNCHANGED <<xferVars, statVars>>
    \/ \E p \in Ids : SrvDisconnect(p) /\ UNCHANGED <<xferVars, statVars>>
    \/ \E p \in Ids : RawEmit(p, Rejoin) /\ UNCHANGED <<xferVars, statVars>>
    \/ \E p \in Ids : ClosePage(p) /\ UNCHANGED <<xferVars, statVars>>

NextRelay ==
    \/ \E p \in Ids : Connect(p) /\ UNCHANGED <<xferVars, statVars>>
    \/ \E p \in Ids : SrvJoin(p) /\ UNCHANGED <<xferVars, statVars>>
    \/ \E p \in Ids : SrvSignal(p) /\ UNCHANGED <<xferVars, statVars>>
    \/ \E p \in Ids : SrvBatchRequest(p) /\ UNCHANGED <<xferVars, statVars>>
    \/ \E p \in Ids : SrvBatchAnswer(p) /\ UNCHANGED <<xferVars, statVars>>
    \/ \E p \in Ids : SrvDisconnect(p) /\ UNCHANGED <<xferVars, statVars>>
    \/ \E p \in RawSenders : \E msg \in RawMessages(p) :
           RawEmit(p, msg) /\ UNCHANGED <<xferVars, statVars>>
    \/ \E p \in Closers : ClosePage(p) /\ UNCHANGED <<xferVars, statVars>>

\* the negotiation between pages that have joined
Next ==
    \/ \E p \in Ids : SrvBatchRequest(p) /\ UNCHANGED <<xferVars, statVars>>
    \/ \E p \in Ids : SrvBatchAnswer(p) /\ UNCHANGED <<xferVars, statVars>>
    \/ \E p \in Ids : SrvDisconnect(p) /\ UNCHANGED <<xferVars, statVars>>
    \/ \E p \in Ids : OnUsers(p) /\ UNCHANGED <<xferVars, statVars>>
    \/ \E p \in Ids : OnBatchRequest(p) /\ UNCHANGED <<xferVars, statVars>>
    \/ \E p \in Ids : OnBatchAnswer(p) /\ UNCHANGED <<xferVars, statVars>>
    \/ \E p \in Ids : HandleBatchAccept(p) /\ UNCHANGED <<xferVars, statVars>>
    \/ \E p \in Ids : HandleBatchDecline(p) /\ UNCHANGED <<xferVars, statVars>>
    \/ \E p \in Pickers : \E u \in usersRef[p] : \E n \in FileCounts :
           HandleFileSelect(p, u, n) /\ UNCHANGED <<xferVars, statVars>>
    \/ \E p \in Droppers : \E u \in usersRef[p] : \E n \in FileCounts :
           HandleDrop(p, u, n) /\ UNCHANGED <<xferVars, statVars>>
    \/ \E p \in Ids : \E k \in 1..Len(peers[p]) :
           PeerConnect(p, k) /\ UNCHANGED <<xferVars, statVars>>
    \/ \E p \in Ids : \E k \in 1..Len(peers[p]) :
           PeerClose(p, k) /\ UNCHANGED <<xferVars, statVars>>
    \/ \E p \in Ids : ConnectionTimeout(p) /\ UNCHANGED <<xferVars, statVars>>
    \/ \E p \in Closers : ClosePage(p) /\ UNCHANGED <<xferVars, statVars>>

\* the messages that the socket p makes up for the users who pick files
Forged(p) == { msg \in RawMessages(p) : msg.to \in Pickers }

\* negotiation and signalling with a client of its own making in the lobby
NextSignal ==
    \/ \E p \in RawSenders : \E msg \in Forged(p) :
           RawEmit(p, msg) /\ UNCHANGED <<xferVars, statVars>>
    \/ \E p \in Ids : SrvSignal(p) /\ UNCHANGED <<xferVars, statVars>>
    \/ \E p \in Ids : SrvBatchRequest(p) /\ UNCHANGED <<xferVars, statVars>>
    \/ \E p \in Ids : SrvBatchAnswer(p) /\ UNCHANGED <<xferVars, statVars>>
    \/ \E p \in Ids : OnSignal(p) /\ UNCHANGED <<xferVars, statVars>>
    \/ \E p \in Ids : OnBatchRequest(p) /\ UNCHANGED <<xferVars, statVars>>
    \/ \E p \in Ids : OnBatchAnswer(p) /\ UNCHANGED <<xferVars, statVars>>
    \/ \E p \in Ids : HandleBatchAccept(p) /\ UNCHANGED <<xferVars, statVars>>
    \/ \E p \in Ids : HandleBatchDecline(p) /\ UNCHANGED <<xferVars, statVars>>
    \/ \E p \in Pickers : \E u \in usersRef[p] : \E n \in FileCounts :
           HandleFileSelect(p, u, n) /\ UNCHANGED <<xferVars, statVars>>
    \/ \E p \in Ids : \E k \in 1..Len(peers[p]) :
           PeerConnect(p, k) /\ UNCHANGED <<xferVars, statVars>>

\* negotiation starts when every page has joined and has handled the last
\* broadcast, and no transfer is running
Init ==
    /\ conns = Ids
    /\ users = [p \in Ids |-> StoredName(p)]
    /\ toServer = [p \in Ids |-> <<>>]
    /\ toClient = [p \in Ids |-> <<>>]
    /\ sock = [p \in Ids |-> "on"]
    /\ myId = [p \in Ids |-> p]
    /\ usersRef = [p \in Ids |-> Others(UserList(users), p)]
    /\ incomingRequest = [p \in Ids |-> NoRequest]
    /\ selectedFiles = [p \in Ids |-> 0]
    /\ selectedFilesRef = [p \in Ids |-> 0]
    /\ batchStatus = [p \in Ids |-> "idle"]
    /\ connected = [p \in Ids |-> FALSE]
    /\ peers = [p \in Ids |-> <<>>]
    /\ peerRef = [p \in Ids |-> 0]
    /\ timer = [p \in Ids |-> NoTimer]
    /\ toasts = [p \in Ids |-> {}]
    /\ requests = 0
    /\ asked = [p \in Ids |-> "none"]
    /\ files = <<>>
    /\ streamOK = FALSE
    /\ spc = "done"
    /\ fi = 1
    /\ offset = 0
    /\ throws = 0
    /\ channel = <<>>
    /\ txLog = <<>>
    /\ attempts = <<>>
    /\ failed = {}
    /\ currentFileMeta = NoMsg
    /\ writable = 0
    /\ chunks = <<>>
    /\ receivedBytes = 0
    /\ pending = <<>>
    /\ sinks = <<>>
    /\ rxThrew = FALSE
    /\ now = 0
    /\ lastTimeRef = 0
    /\ lastBytesRef = 0
    /\ stats = WaitingStats
    /\ sentBytesTotal = 0
    /\ speedBytesPerSec = <<0, 1>>

\* negotiation, from the state in which every page has joined
Spec == Init /\ [][Next]_vars

\* the same with signals, and with a client that emits what it likes
SpecSignal == Init /\ [][NextSignal]_vars

\* negotiation in which the server and the pages handle every message that
\* reaches them and an armed timeout fires; what the users do is left open
Fairness ==
    \A p \in Ids :
        /\ WF_vars(SrvBatchRequest(p) /\ UNCHANGED <<xferVars, statVars>>)
        /\ WF_vars(SrvBatchAnswer(p) /\ UNCHANGED <<xferVars, statVars>>)
        /\ WF_vars(SrvDisconnect(p) /\ UNCHANGED <<xferVars, statVars>>)
        /\ WF_vars(OnUsers(p) /\ UNCHANGED <<xferVars, statVars>>)
        /\ WF_vars(OnBatchRequest(p) /\ UNCHANGED <<xferVars, statVars>>)
        /\ WF_vars(OnBatchAnswer(p) /\ UNCHANGED <<xferVars, statVars>>)
        /\ WF_vars(ConnectionTimeout(p) /\ UNCHANGED <<xferVars, statVars>>)

SpecFair == Init /\ [][Next]_vars /\ Fairness

\* the server has started and no page is open
InitLobby ==
    /\ conns = {}
    /\ users = << >>
    /\ toServer = [p \in Ids |-> <<>>]
    /\ toClient = [p \in Ids |-> <<>>]
    /\ sock = [p \in Ids |-> "off"]
    /\ myId = [p \in Ids |-> ""]
    /\ usersRef = [p \in Ids |-> {}]
    /\ incomingRequest = [p \in Ids |-> NoRequest]
    /\ selectedFiles = [p \in Ids |-> 0]
    /\ selectedFilesRef = [p \in Ids |-> 0]
    /\ batchStatus = [p \in Ids |-> "idle"]
    /\ connected = [p \in Ids |-> FALSE]
    /\ peers = [p \in Ids |-> <<>>]
    /\ peerRef = [p \in Ids |-> 0]
    /\ timer = [p \in Ids |-> NoTimer]
    /\ toasts = [p \in Ids |-> {}]
    /\ requests = 0
    /\ asked = [p \in Ids |-> "none"]
    /\ files = <<>>
    /\ streamOK = FALSE
    /\ spc = "done"
    /\ fi = 1
    /\ offset = 0
    /\ throws = 0
    /\ channel = <<>>
    /\ txLog = <<>>
    /\ attempts = <<>>
    /\ failed = {}
    /\ currentFileMeta = NoMsg
    /\ writable = 0
    /\ chunks = <<>>
    /\ receivedBytes = 0
    /\ pending = <<>>
    /\ sinks = <<>>
    /\ rxThrew = FALSE
    /\ now = 0
    /\ lastTimeRef = 0
    /\ lastBytesRef = 0
    /\ stats = WaitingStats
    /\ sentBytesTotal = 0
    /\ speedBytesPerSec = <<0, 1>>

\* the lobby, from the start of the server
SpecLobby == InitLobby /\ [][NextLobby]_vars

\* the relay, from the start of the server
SpecRelay == InitLobby /\ [][NextRelay]_vars

SpecRegistry == InitLobby /\ [][NextRegistry]_vars

\* the transport between Sender and Receiver has opened and their 'connect'
\* handlers have run: sendFiles is called with the selected files
InitTransfer ==
    /\ files \in FileLists
    /\ streamOK \in BOOLEAN
    /\ spc = "header"
    /\ fi = 1
    /\ offset = 0
    /\ throws = 0
    /\ channel = <<>>
    /\ txLog = <<>>
    /\ attempts = <<>>
    /\ failed = {}
    /\ currentFileMeta = NoMsg
    /\ writable = 0
    /\ chunks = <<>>
    /\ receivedBytes = 0
    /\ pending = <<>>
    /\ sinks = <<>>
    /\ rxThrew = FALSE
    /\ conns = Ids
    /\ users = [p \in Ids |-> StoredName(p)]
    /\ toServer = [p \in Ids |-> <<>>]
    /\ toClient = [p \in Ids |-> <<>>]
    /\ sock = [p \in Ids |-> "on"]
    /\ myId = [p \in Ids |-> p]
    /\ usersRef = [p \in Ids |-> Others(UserList(users), p)]
    /\ incomingRequest = [p \in Ids |-> NoRequest]
    /\ selectedFiles = [p \in Ids |-> IF p = Sender THEN Len(files) ELSE 0]
    /\ selectedFilesRef = [p \in Ids |-> IF p = Sender THEN Len(files) ELSE 0]
    /\ batchStatus = [p \in Ids |->
           IF p \in {Sender, Receiver} THEN "transferring" ELSE "idle"]
    /\ connected = [p \in Ids |-> p \in {Sender, Receiver}]
    /\ peers = [p \in Ids |->
           IF p = Sender
           THEN <<[initiator |-> TRUE, remote |-> Receiver, state |-> "open"]>>
           ELSE IF p = Receiver
           THEN <<[initiator |-> FALSE, remote |-> Sender, state |-> "open"]>>
           ELSE <<>>]
    /\ peerRef = [p \in Ids |-> IF p \in {Sender, Receiver} THEN 1 ELSE 0]
    /\ timer = [p \in Ids |-> NoTimer]
    /\ toasts = [p \in Ids |->
           IF p \in {Sender, Receiver} THEN {"P2P CONNECTED!"} ELSE {}]
    /\ requests = 0
    /\ asked = [p \in Ids |-> "none"]
    /\ now = 0
    /\ lastTimeRef = 0
    /\ lastBytesRef = 0
    /\ stats = WaitingStats
    /\ sentBytesTotal = 0
    /\ speedBytesPerSec = <<0, 1>>

\* sendFiles has set the first sample and the stats of a batch
InitStats ==
    /\ now = 0
    /\ lastTimeRef = 0
    /\ lastBytesRef = 0
    /\ stats \in { [totalFiles |-> nf, processedFiles |-> 0,
                     totalBytes |-> tb, processedBytes |-> 0,
                     speed |-> <<0>>, eta |-> UnknownTime,
                     currentFile |-> FileNames[1]] :
                        nf \in 1..MaxFiles, tb \in 1..MaxBytes }
    /\ sentBytesTotal = 0
    /\ speedBytesPerSec = <<0, 1>>
    /\ conns = {}
    /\ users = << >>
    /\ toServer = [p \in Ids |-> <<>>]
    /\ toClient = [p \in Ids |-> <<>>]
    /\ sock = [p \in Ids |-> "off"]
    /\ myId = [p \in Ids |-> ""]
    /\ usersRef = [p \in Ids |-> {}]
    /\ incomingRequest = [p \in Ids |-> NoRequest]
    /\ selectedFiles = [p \in Ids |-> 0]
    /\ selectedFilesRef = [p \in Ids |-> 0]
    /\ batchStatus = [p \in Ids |-> "idle"]
    /\ connected = [p \in Ids |-> FALSE]
    /\ peers = [p \in Ids |-> <<>>]
    /\ peerRef = [p \in Ids |-> 0]
    /\ timer = [p \in Ids |-> NoTimer]
    /\ toasts = [p \in Ids |-> {}]
    /\ requests = 0
    /\ asked = [p \in Ids |-> "none"]
    /\ files = <<>>
    /\ streamOK = FALSE
    /\ spc = "done"
    /\ fi = 1
    /\ offset = 0
    /\ throws = 0
    /\ channel = <<>>
    /\ txLog = <<>>
    /\ attempts = <<>>
    /\ failed = {}
    /\ currentFileMeta = NoMsg
    /\ writable = 0
    /\ chunks = <<>>
    /\ receivedBytes = 0
    /\ pending = <<>>
    /\ sinks = <<>>
    /\ rxThrew = FALSE

\* the progress display during a batch
SpecStats == InitStats /\ [][NextStats]_vars

\* sendFiles and the receiver's data handler on an open transport
SpecTransfer == InitTransfer /\ [][NextTransfer]_vars

\* the same, where every step of sendFiles and of the data handler that can
\* be taken is taken in the end; reads and sends that throw and the loss
\* of the connection are left open
FairTransfer ==
    /\ WF_vars(StartFile /\ UNCHANGED <<idleNetVars, statVars>>)
    /\ WF_vars(HeaderWaitDone /\ UNCHANGED <<idleNetVars, statVars>>)
    /\ WF_vars(ReadDone /\ UNCHANGED <<idleNetVars, statVars>>)
    /\ WF_vars(BackpressureDone /\ UNCHANGED <<idleNetVars, statVars>>)
    /\ WF_vars(BackpressureFails /\ UNCHANGED <<idleNetVars, statVars>>)
    /\ WF_vars(SendEnd /\ UNCHANGED <<idleNetVars, statVars>>)
    /\ WF_vars(Complete /\ UNCHANGED <<idleNetVars, statVars>>)
    /\ WF_vars(Deliver /\ UNCHANGED <<idleNetVars, statVars>>)
    /\ WF_vars(Resume /\ UNCHANGED <<idleNetVars, statVars>>)

SpecTransferFair == InitTransfer /\ [][NextTransfer]_vars /\ FairTransfer

----------------------------------------------------------------------------
(* Claims about the transfer, checked under SpecTransfer *)

\* C1 (as claimed): over a transport that never throws, once sendFiles has
\* returned and every frame has been handled, the receiver has materialized
\* the sender's files: as many, in the same order, under the same names and
\* with the same content.
C1_RoundTrip ==
    (Quiescent /\ throws = 0 /\ TransportOpen) => Materialized = Sent

\* C2 (as claimed): the frames handed to the transport form per-file groups
\* Header, DataChunk*, EndMarker: a Header is the first frame or follows an
\* EndMarker, a DataChunk or EndMarker follows a Header or DataChunk of its
\* own file; also in runs in which a send throws.
C2_FrameOrder ==
    \A k \in 1..Len(txLog) :
        IF txLog[k].kind = "header"
        THEN k = 1 \/ txLog[k - 1].kind = "end"
        ELSE /\ k > 1
             /\ txLog[k - 1].kind \in {"header", "chunk"}
             /\ txLog[k - 1].file = txLog[k].file

\* this step hands a DataChunk to the transport
ChunkHandedOver ==
    /\ Len(txLog') = Len(txLog) + 1
    /\ txLog'[Len(txLog')].kind = "chunk"

RECURSIVE ControlTail(_)
\* the bytes of the control frames queued behind the last DataChunk
ControlTail(q) ==
    IF q = <<>> \/ q[Len(q)].kind = "chunk" THEN 0
    ELSE Len(q[Len(q)].bytes) + ControlTail(SubSeq(q, 1, Len(q) - 1))

C8_OverlapRejected ==
    [][(/\ channel # <<>>
        /\ channel' = Tail(channel)
        /\ Classify(Head(channel).bytes).type = "file-header"
        /\ currentFileMeta # NoMsg)
       => /\ currentFileMeta' = currentFileMeta
          /\ writable' = writable
          /\ chunks' = chunks
          /\ sinks' = sinks
          /\ receivedBytes' = receivedBytes]_vars

----------------------------------------------------------------------------
(* Claims about the negotiation, checked under Spec and SpecFair *)

\* the page p emits an answer in this step
AnswerEmitted(p, accepted) ==
    /\ Len(toServer'[p]) = Len(toServer[p]) + 1
    /\ toServer'[p][Len(toServer'[p])].type = "batch-answer"
    /\ toServer'[p][Len(toServer'[p])].accepted = accepted

\* the page p handles an answer in this step
AnswerObserved(p, accepted) ==
    /\ sock[p] = "on"
    /\ toClient[p] # <<>>
    /\ toClient'[p] = Tail(toClient[p])
    /\ Head(toClient[p]).type = "batch-answer"
    /\ Head(toClient[p]).accepted = accepted

\* the page r has created a receiving transport towards i
HasReceiverPeer(r, i) ==
    \E k \in 1..Len(peers[r]) :
        ~peers[r][k].initiator /\ peers[r][k].remote = i

\* C3: the step of handleBatchAccept that emits the accept answer has
\* created a receiving transport towards the requester and installed it as
\* the current transport; and wherever an accept answer is, on its way to the
\* server or waiting at the initiator, the answering page has created a
\* receiving transport towards that initiator.
C3_AcceptOrdering ==
    /\ [][\A r \in Ids : AnswerEmitted(r, TRUE) =>
            /\ Len(peers'[r]) = Len(peers[r]) + 1
            /\ peerRef'[r] = Len(peers'[r])
            /\ peers'[r][peerRef'[r]] =
                   [initiator |-> FALSE,
                    remote |-> toServer'[r][Len(toServer'[r])].to,
                    state |-> "new"]]_vars
    /\ [](\A i, r \in Ids :
            /\ \A k \in 1..Len(toServer[r]) :
                   (/\ toServer[r][k].type = "batch-answer"
                    /\ toServer[r][k].accepted
                    /\ toServer[r][k].to = i) => HasReceiverPeer(r, i)
            /\ \A k \in 1..Len(toClient[i]) :
                   (/\ toClient[i][k].type = "batch-answer"
                    /\ toClient[i][k].accepted
                    /\ toClient[i][k].from = r) => HasReceiverPeer(r, i))

\* C3 witness: the initiator is about to handle an accept answer and the
\* answering page's current transport is the receiving one it created.
C3_Witness ==
    \E i, r \in Ids :
        /\ sock[i] = "on"
        /\ toClient[i] # <<>>
        /\ Head(toClient[i]).type = "batch-answer"
        /\ Head(toClient[i]).accepted
        /\ Head(toClient[i]).from = r
        /\ peerRef[r] # 0
        /\ peers[r][peerRef[r]] =
               [initiator |-> FALSE, remote |-> i, state |-> "new"]

\* C4 (as claimed): a page that handles an accept answer while it holds
\* selected files and has the answering peer in its list enters Connecting
\* and creates a transport as the initiating party towards that peer.
C4_InitiatorConnects ==
    [][\A p \in Ids :
         (/\ AnswerObserved(p, TRUE)
          /\ selectedFilesRef[p] > 0
          /\ \E u \in usersRef[p] : u.id = Head(toClient[p]).from)
         => /\ batchStatus'[p] = "connecting"
            /\ Len(peers'[p]) = Len(peers[p]) + 1
            /\ peerRef'[p] = Len(peers'[p])
            /\ peers'[p][peerRef'[p]] =
                   [initiator |-> TRUE, remote |-> Head(toClient[p]).from,
                    state |-> "new"]]_vars

\* C5 (as claimed): a page that is in Connecting, while its transport does
\* not open, leaves Connecting (or is closed).
C5_ConnectingEnds ==
    \A p \in Ids :
        (batchStatus[p] = "connecting" /\ sock[p] = "on")
            ~> (batchStatus[p] # "connecting" \/ sock[p] # "on")

\* C6: the step of handleBatchDecline that emits the declining answer
\* addresses the requester, clears the pending request and creates no
\* transport on any page; the step in which a page handles a declining answer
\* leaves it Idle and creates no transport on any page.
C6_Decline ==
    [][\A p \in Ids :
         /\ AnswerEmitted(p, FALSE) =>
                /\ incomingRequest[p] # NoRequest
                /\ toServer'[p][Len(toServer'[p])].to = incomingRequest[p].from
                /\ incomingRequest'[p] = NoRequest
                /\ peers' = peers
                /\ peerRef' = peerRef
         /\ AnswerObserved(p, FALSE) =>
                /\ batchStatus'[p] = "idle"
                /\ peers' = peers
                /\ peerRef' = peerRef]_vars

\* C6 witness: a request was declined and the initiator has handled the
\* answer: it is Idle, and neither page has a transport.
C6_Witness ==
    \E i, r \in Ids :
        /\ i # r
        /\ toasts[r] = {"Transfer declined (info)"}
        /\ incomingRequest[r] = NoRequest
        /\ toasts[i] = {"Transfer declined"}
        /\ batchStatus[i] = "idle"
        /\ peers[i] = <<>>
        /\ peers[r] = <<>>

----------------------------------------------------------------------------
(* Claims about the lobby, checked under SpecLobby *)

\* the page p is registered and has handled every list broadcast to it
CaughtUp(p) ==
    /\ sock[p] = "on"
    /\ p \in DOMAIN users
    /\ \A k \in 1..Len(toClient[p]) : toClient[p][k].type # "users"

\* C10: no page ever holds a peer list with itself in it, and a registered
\* page that has handled the last broadcast holds exactly the other
\* registered peers, one fewer than are registered.
C10_PeerLists ==
    \A p \in Ids :
        /\ \A u \in usersRef[p] : u.id # p
        /\ CaughtUp(p) =>
            /\ usersRef[p] =
                   { [id |-> i, name |-> users[i]] : i \in DOMAIN users \ {p} }
            /\ Cardinality(usersRef[p]) = Cardinality(DOMAIN users) - 1

\* C10 witness: three pages joined, one closed and was deregistered, and the
\* two that remain have handled the broadcasts: each holds the other one.
C10_Witness ==
    \E p, q, g \in Ids :
        /\ p # q
        /\ sock[g] = "gone"
        /\ DOMAIN users = {p, q}
        /\ CaughtUp(p)
        /\ CaughtUp(q)
        /\ usersRef[p] = { [id |-> q, name |-> users[q]] }
        /\ usersRef[q] = { [id |-> p, name |-> users[p]] }

----------------------------------------------------------------------------
(* Claims about the relay, checked under SpecRelay *)

\* the server handles a signal, a request or an answer of the socket p
Relays(p) ==
    /\ p \in conns
    /\ toServer[p] # <<>>
    /\ toServer'[p] = Tail(toServer[p])
    /\ Head(toServer[p]).type \in {"signal", "batch-request", "batch-answer"}

\* C11 (as claimed): a signal, request or answer addressed to `to` reaches
\* no connection but the one whose id is `to`, and that one only while its
\* id is registered.
C11_RelayTarget ==
    [][\A p \in Ids : Relays(p) =>
         \A q \in Ids : toClient'[q] # toClient[q] =>
             /\ q = Head(toServer[p]).to
             /\ q \in DOMAIN users]_vars

----------------------------------------------------------------------------
(* More claims about the negotiation, checked under Spec and SpecFair *)

\* the page p has a request on its way to the server whose target is not
\* in the registry
RequestsAbsent(p) ==
    /\ sock[p] = "on"
    /\ \E k \in 1..Len(toServer[p]) :
        /\ toServer[p][k].type = "batch-request"
        /\ toServer[p][k].to \notin DOMAIN users

\* the toasts by which a page tells its user that a peer did not respond
NoResponseToasts ==
    {"Connection timeout. Please try again.", "Target user not found"}

\* C12 (as claimed): a page whose request goes to an id absent from the
\* registry eventually tells its user of a timeout or of no response.
C12_AbsentTarget ==
    \A p \in Ids :
        RequestsAbsent(p)
            ~> (toasts[p] \cap NoResponseToasts # {} \/ sock[p] # "on")

\* the timeout of the page p fires and acts
TimeoutActs(p) ==
    /\ timer[p] # NoTimer
    /\ timer'[p] = NoTimer
    /\ sock'[p] = "on"
    /\ toasts'[p] = {"Connection timeout. Please try again."}

\* C13: a timeout that acts finds its page not in Transferring and its own
\* transport not open, and in the step no open transport of the page stops
\* being open.
C13_TimeoutScope ==
    [][\A p \in Ids : TimeoutActs(p) =>
         /\ batchStatus[p] # "transferring"
         /\ peers[p][timer[p].peer].state # "open"
         /\ \A k \in 1..Len(peers[p]) :
                peers[p][k].state = "open" => peers'[p][k].state = "open"]_vars

\* C13 witness: a page has an open transport, has since created another
\* one, and that one's timeout has passed without acting: the page is still
\* in Connecting and the open transport is open.
C13_Witness ==
    \E p \in Ids : \E k \in 1..Len(peers[p]) :
        /\ sock[p] = "on"
        /\ peers[p][k].state = "open"
        /\ peerRef[p] > k
        /\ peers[p][peerRef[p]].state = "new"
        /\ batchStatus[p] = "connecting"
        /\ timer[p] = NoTimer

\* the transports of the page p towards r that were created and not destroyed
LivePeers(p, r) ==
    { k \in 1..Len(peers[p]) :
          peers[p][k].remote = r /\ peers[p][k].state # "destroyed" }

\* C14 (as claimed): a page has at most one live transport towards any one
\* peer.
C14_SingleTransport ==
    \A p, r \in Ids : Cardinality(LivePeers(p, r)) <= 1

----------------------------------------------------------------------------
(* More claims about the transfer, checked under SpecTransfer and           *)
(* SpecTransferFair                                                         *)

\* C15 (as claimed): once sendFiles has gone through a list of at least one
\* file and returned, the initiator's state returns to Idle.
C15_BackToIdle ==
    (spc = "done" /\ files # <<>>) ~> (batchStatus[Sender] = "idle")

\* the data handler finishes a file in this step: the file-end branch on the
\* Blob path, or its continuation after the writer has closed
FileFinished ==
    \/ /\ channel # <<>>
       /\ channel' = Tail(channel)
       /\ Classify(Head(channel).bytes).type = "file-end"
       /\ currentFileMeta # NoMsg
       /\ writable = 0
    \/ /\ pending # <<>>
       /\ pending' = Tail(pending)
       /\ Head(pending).kind = "close"
       /\ currentFileMeta # NoMsg

\* C16 (as claimed): when a file is finished with a received byte count
\* that differs from the size its Header declared, the receiver reports it:
\* it does not toast the plain success.
C16_SizeVerified ==
    [][(FileFinished /\ receivedBytes # currentFileMeta.size)
           => toasts'[Receiver] # {"Received"}]_vars

\* C17 (as claimed): when the transport is destroyed while a file is open,
\* the sink is released: no writer stays open and no chunks stay held.
C17_SinkReleased ==
    [][(TransportOpen /\ ~TransportOpen' /\ currentFileMeta # NoMsg)
           => /\ chunks' = <<>>
              /\ writable # 0 => (writable' = 0 /\ sinks'[writable].closed)]_vars

\* C18 (as claimed): sendFiles returns.
C18_SenderTerminates == <>(spc = "done")

\* the frames of the file f handed to the transport
FrameIndexes(f, kind) ==
    { k \in 1..Len(txLog) : txLog[k].file = f /\ txLog[k].kind = kind }

RECURSIVE SumOfLens(_)
\* the sum of the payload lengths of the frames at the indexes ks
SumOfLens(ks) ==
    IF ks = {} THEN 0
    ELSE LET k == CHOOSE j \in ks : TRUE
         IN  txLog[k].len + SumOfLens(ks \ {k})

\* C19: for every file whose EndMarker was handed to the transport, the
\* payload lengths of its DataChunks add up to the size of the file, which
\* is the size its Header declares, and no chunk is longer than CHUNK_SIZE.
C19_ChunkSizeSum ==
    \A f \in 1..Len(files) :
        /\ \A k \in FrameIndexes(f, "chunk") : txLog[k].len <= CHUNK_SIZE
        /\ FrameIndexes(f, "end") # {} =>
               SumOfLens(FrameIndexes(f, "chunk")) = SizeOf(files[f])

\* C19 witness: the EndMarker of a file of more than one chunk was handed to
\* the transport, and one of its chunks had to wait for the buffer.
C19_Witness ==
    \E f \in 1..Len(files) :
        /\ FrameIndexes(f, "end") # {}
        /\ Cardinality(FrameIndexes(f, "chunk")) > 1
        /\ \E k \in FrameIndexes(f, "chunk") : txLog[k].waited

----------------------------------------------------------------------------
(* The registry of the server, checked under SpecRegistry *)

\* the join that the page p emitted when it connected is still on its way
FirstJoinPending(p) ==
    \E k \in 1..Len(toServer[p]) :
        toServer[p][k] = [type |-> "join", name |-> StoredName(p)]

\* the server handles a message of the given type of the socket p
Handles(p, type) ==
    /\ p \in conns
    /\ toServer[p] # <<>>
    /\ toServer'[p] = Tail(toServer[p])
    /\ Head(toServer[p]).type = type

\* C20: the registry holds an entry for exactly the connections whose join
\* was handled and whose disconnect was not; a join sets the entry of its
\* connection to the name it carries and leaves the others, a disconnect
\* removes the entry of its connection and leaves the others, and no other
\* event changes the registry.
C20_Registry ==
    /\ [](DOMAIN users = { p \in conns : ~FirstJoinPending(p) })
    /\ [][\A p \in Ids :
            /\ Handles(p, "join") =>
                   users' = [i \in DOMAIN users \cup {p} |->
                                IF i = p THEN Head(toServer[p]).name
                                ELSE users[i]]
            /\ Handles(p, "disconnect") =>
                   users' = [i \in DOMAIN users \ {p} |-> users[i]]]_vars
    /\ [][(\A p \in Ids : ~Handles(p, "join") /\ ~Handles(p, "disconnect"))
             => users' = users]_vars

\* C20 witness: a connection has joined again under another name and holds
\* one entry, with the new name; another has disconnected and has none.
C20_Witness ==
    \E p, g \in Ids :
        /\ p \in DOMAIN users
        /\ users[p] = "Renamed"
        /\ sock[g] = "gone"
        /\ g \notin conns
        /\ g \notin DOMAIN users
        /\ Cardinality(DOMAIN users) = 2

----------------------------------------------------------------------------
(* The progress display, checked under SpecStats *)

\* a step in which sendFiles calls updateStats
Called == sentBytesTotal' # sentBytesTotal

\* the call of this step is a qualifying sample
QualifyingCall ==
    /\ Called
    /\ Elapsed # 0
    /\ (Elapsed >= TicksPerSecond \/ sentBytesTotal' = stats.totalBytes)

\* the minutes and seconds of an ETA, in seconds
EtaValue(eta) == eta[1] * 60 + eta[2]

\* C21: a call of updateStats more than zero and less than one second after
\* the last sample, on a transfer that is not complete, sets the processed
\* bytes, processed files and current file, and leaves the rate, the ETA,
\* the totals and the last sample's time and byte count as they were.
C21_NonQualifying ==
    [][(/\ Called
        /\ Elapsed > 0
        /\ Elapsed < TicksPerSecond
        /\ sentBytesTotal' # stats.totalBytes)
       => /\ stats'.processedBytes = sentBytesTotal'
          /\ stats'.speed = stats.speed
          /\ stats'.eta = stats.eta
          /\ stats'.totalFiles = stats.totalFiles
          /\ stats'.totalBytes = stats.totalBytes
          /\ lastTimeRef' = lastTimeRef
          /\ lastBytesRef' = lastBytesRef]_vars

\* C21 witness: the display shows bytes sent since the last sample, less
\* than a second after it, on a transfer that is not complete.
C21_Witness ==
    /\ stats.processedBytes = sentBytesTotal
    /\ stats.processedBytes > lastBytesRef
    /\ stats.processedBytes < stats.totalBytes
    /\ Elapsed > 0
    /\ Elapsed < TicksPerSecond

\* C22: on a qualifying sample the rate is the bytes since the last sample
\* divided by the time since it, and the sample becomes the last sample; a
\* sample one second after the last with D more bytes gives the rate D; and
\* when the rate equals the rate of the previous qualifying sample the ETA
\* shown is not greater than the one shown before.
C22_RateAndEta ==
    [][QualifyingCall
       => /\ speedBytesPerSec'[1] * Elapsed
               = (sentBytesTotal' - lastBytesRef) * TicksPerSecond
                    * speedBytesPerSec'[2]
          /\ stats'.speed = ToFixed1(speedBytesPerSec')
          /\ lastTimeRef' = now
          /\ lastBytesRef' = sentBytesTotal'
          /\ (Elapsed = TicksPerSecond
                => /\ speedBytesPerSec'[1]
                        = (sentBytesTotal' - lastBytesRef) * speedBytesPerSec'[2]
                   /\ stats'.speed
                        = ToFixed1(<<sentBytesTotal' - lastBytesRef, 1>>))
          /\ ((/\ stats.eta # UnknownTime
               /\ speedBytesPerSec'[1] * speedBytesPerSec[2]
                     = speedBytesPerSec[1] * speedBytesPerSec'[2])
                => /\ stats'.eta # UnknownTime
                   /\ EtaValue(stats'.eta) <= EtaValue(stats.eta))]_vars

\* C22 witness: a qualifying sample taken later than one second after the
\* start, at the average rate since the start, shows a rate and a positive
\* ETA.
C22_Witness ==
    /\ lastBytesRef = stats.processedBytes
    /\ lastBytesRef > 0
    /\ lastTimeRef > TicksPerSecond
    /\ speedBytesPerSec[1] > 0
    /\ speedBytesPerSec[1] * lastTimeRef
          = lastBytesRef * TicksPerSecond * speedBytesPerSec[2]
    /\ stats.eta # UnknownTime
    /\ EtaValue(stats.eta) > 0

\* C23: a qualifying sample whose rate is zero, or on which the transfer is
\* complete, shows the ETA '--:--'.
C23_UnknownEta ==
    [][(/\ QualifyingCall
        /\ (speedBytesPerSec'[1] = 0 \/ sentBytesTotal' = stats.totalBytes))
       => stats'.eta = UnknownTime]_vars

\* C24: a call of updateStats at the time of the last sample changes
\* neither the stats shown nor the last sample's time and byte count.
C24_ZeroElapsed ==
    [][(Called /\ Elapsed = 0)
       => /\ stats' = stats
          /\ lastTimeRef' = lastTimeRef
          /\ lastBytesRef' = lastBytesRef]_vars

\* C24 witness: bytes have been sent at the time of the last sample and the
\* display does not show them.
C24_Witness ==
    /\ Elapsed = 0
    /\ sentBytesTotal > stats.processedBytes

----------------------------------------------------------------------------
(* More claims about the transfer, checked under SpecTransfer *)

\* C25: every Header and every EndMarker that sendFiles has handed to the
\* transport is classified by the receiver's data handler as the control
\* message it is.
C25_ControlFrames ==
    \A k \in 1..Len(channel) :
        /\ channel[k].kind = "header"
              => Classify(channel[k].bytes).type = "file-header"
        /\ channel[k].kind = "end"
              => Classify(channel[k].bytes).type = "file-end"

\* the continuation of a file-end handler runs: its close() has resolved
CloseCompletes ==
    /\ pending # <<>>
    /\ pending' = Tail(pending)
    /\ Head(pending).kind = "close"

\* a Header has been handled since the file-end whose close() is awaited:
\* the current file is the next one and its writer is open
NextFileOpen ==
    /\ currentFileMeta # NoMsg
    /\ writable # 0
    /\ ~sinks[writable].closed

\* C26: when the close of a file's sink completes after the Header of the
\* next file has been handled, the next file's metadata and writer stay as
\* they are.
C26_EndAtomic ==
    [][(CloseCompletes /\ NextFileOpen)
       => /\ currentFileMeta' = currentFileMeta
          /\ writable' = writable]_vars

----------------------------------------------------------------------------
(* Consent and the sender's identity *)

\* the page p gets a transport in this step
TransportCreated(p) == Len(peers'[p]) > Len(peers[p])

\* the user of p accepts the request on the screen in this step
Accepts(p) ==
    /\ incomingRequest[p] # NoRequest
    /\ incomingRequest'[p] = NoRequest
    /\ toServer'[p] = Append(toServer[p],
                             [type |-> "batch-answer",
                              to |-> incomingRequest[p].from,
                              accepted |-> TRUE])

\* C27: a page gets a receiving transport only in the step in which its user
\* accepts the request on the screen, and the transport is for the peer
\* that made the request.
C27_Consent ==
    [][\A p \in Ids :
         (TransportCreated(p) /\ ~peers'[p][Len(peers'[p])].initiator)
            => /\ Accepts(p)
               /\ peers'[p][Len(peers'[p])].remote = incomingRequest[p].from]_vars

\* the server takes a message of the socket p that names a sender
RelaysFrom(p) ==
    /\ p \in conns
    /\ toServer[p] # <<>>
    /\ toServer'[p] = Tail(toServer[p])
    /\ Head(toServer[p]).type \in {"signal", "batch-request", "batch-answer"}

\* C29: every message that the server delivers while it handles a message
\* of a connection names that connection as the sender, and its name where
\* a name goes along.
C29_SenderIdentity ==
    [][\A p \in Ids : RelaysFrom(p) =>
         \A q \in Ids :
            toClient'[q] # toClient[q] =>
               LET m == toClient'[q][Len(toClient'[q])]
               IN  /\ m.from = p
                   /\ m.type = "batch-request" =>
                         /\ p \in DOMAIN users
                         /\ m.fromName = users[p]]_vars

\* the page p handles an accept answer from q in this step
HandlesAccept(p, q) ==
    /\ sock[p] = "on"
    /\ toClient[p] # <<>>
    /\ toClient'[p] = Tail(toClient[p])
    /\ Head(toClient[p]).type = "batch-answer"
    /\ Head(toClient[p]).accepted
    /\ Head(toClient[p]).from = q

C30_EveryRequestAnswered ==
    [][\A p \in Ids :
         (/\ incomingRequest[p] # NoRequest
          /\ sock[p] = "on"
          /\ toClient[p] # <<>>
          /\ toClient'[p] = Tail(toClient[p])
          /\ Head(toClient[p]).type = "batch-request"
          /\ Head(toClient[p]).from # incomingRequest[p].from)
         => \/ incomingRequest'[p] = incomingRequest[p]
            \/ /\ Len(toServer'[p]) > Len(toServer[p])
               /\ toServer'[p][Len(toServer'[p])].type = "batch-answer"
               /\ toServer'[p][Len(toServer'[p])].to = incomingRequest[p].from]_vars

\* the data handler runs on an EndMarker while no file is open
StrayEnd ==
    /\ channel # <<>>
    /\ channel' = Tail(channel)
    /\ Classify(Head(channel).bytes).type = "file-end"
    /\ currentFileMeta = NoMsg

\* C31: an EndMarker that arrives while no file is open raises no error,
\* materializes no file and leaves the receiver's state as it is.
C31_StrayEndIgnored ==
    [][StrayEnd => /\ rxThrew' = rxThrew
                   /\ sinks' = sinks
                   /\ UNCHANGED <<currentFileMeta, writable, chunks,
                                  receivedBytes, pending>>]_vars

====
